---- MODULE Spec2Model ----
(***************************************************************************)
(* Model of the request-handling core of the payment application:          *)
(*   - ModelTools, the JSON-file document store (model/model-tools.js),    *)
(*   - Router, the path matcher and dispatcher (routes/routers.js),        *)
(*   - userRouter, the route table of the users resource,                  *)
(*   - TokenService, AuthService and the Auth guard.                       *)
(* Four specifications share the variables:                                *)
(*   Spec        store calls run one after another,                        *)
(*   SpecRace    two store calls whose file reads and writes interleave,   *)
(*   SpecRouter  the matcher, the dispatcher and the users route table,    *)
(*   SpecAuth    signing, verifying and revoking tokens as time passes.    *)
(***************************************************************************)
EXTENDS Integers, Sequences, FiniteSets, TLC

\* ------------------------------------------------------------------------
\* Bounds of the model
\* ------------------------------------------------------------------------
\* largest number of documents a collection holds in the model
MaxDocs == 2
\* largest identity a create call may assign in the model
MaxId == 3
\* largest number of documents in one create / update payload
MaxBatch == 2

\* ------------------------------------------------------------------------
\* Documents
\* ------------------------------------------------------------------------
\* A document is a function from field names to values.  The store only
\* knows the field "_id"; "name" stands for the arbitrary other fields.
Names == {"a", "b"}

\* the identity a caller may put into a payload of its own
PayloadIds == {2}

\* payload documents: without and with an identity field of their own
PlainItems == {[name |-> n] : n \in Names}

IdItems == {[_id |-> i, name |-> n] : i \in PayloadIds, n \in Names}

Items == PlainItems \cup IdItems

\* the `data` argument: an array of 0..MaxBatch payload documents
Payloads == UNION {[1..n -> Items] : n \in 0..MaxBatch}

\* an update document that names no field: {}
EmptyItem == [f \in {} |-> ""]

UpdateItems == Items \cup {EmptyItem}

\* the `data` argument of update
UpdatePayloads == UNION {[1..n -> UpdateItems] : n \in 0..MaxBatch}

\* the `_id` argument (0 stands for every value _validateID rejects)
IdArgs == 0..MaxId

\* the `filePath` argument: the resource's file, or a value that is no path
ResourcePath == "users.json"

PathArgs == {ResourcePath, ""}

\* { ...a, ...b }: the fields of both, b's values winning
Spread(a, b) ==
  [f \in (DOMAIN a) \cup (DOMAIN b) |-> IF f \in DOMAIN b THEN b[f] ELSE a[f]]

\* const { _id: ignored, ...rest } = item
WithoutId(item) == [f \in (DOMAIN item) \ {"_id"} |-> item[f]]

HasId(item) == "_id" \in DOMAIN item

\* the identities of a list of documents
IdsOf(docs) == {docs[k]._id : k \in 1..Len(docs)}

SetMax(S) == CHOOSE m \in S : \A x \in S : x <= m

\* the largest identity of a collection, 0 when it is empty
MaxIdOf(docs) == IF Len(docs) = 0 THEN 0 ELSE SetMax(IdsOf(docs))

\* Array.prototype.findIndex(ex => ex._id === id): first position, 0 for -1
FindIndexClamped(docs, id) ==
  IF \E k \in 1..Len(docs) : docs[k]._id = id
    THEN CHOOSE k \in 1..Len(docs) :
           /\ docs[k]._id = id
           /\ \A j \in 1..(k - 1) : docs[j]._id # id
    ELSE Len(docs)

FindIndex(docs, id) ==
  IF \E k \in 1..Len(docs) : docs[k]._id = id
    THEN CHOOSE k \in 1..Len(docs) :
           /\ docs[k]._id = id
           /\ \A j \in 1..(k - 1) : docs[j]._id # id
    ELSE 0

\* Array.prototype.splice(index, 1): the array without position k
RemoveAt(docs, k) ==
  [j \in 1..(Len(docs) - 1) |-> IF j < k THEN docs[j] ELSE docs[j + 1]]

\* ------------------------------------------------------------------------
\* ModelTools: validation
\* ------------------------------------------------------------------------
ValidPath(filePath) == filePath # ""

ValidIDAny(id) == TRUE

ValidID(id) == id > 0

ValidData(data) == Len(data) > 0

\* ------------------------------------------------------------------------
\* ModelTools: the pure part of each operation
\* ------------------------------------------------------------------------
\* the backing file: absent, or holding the collection
AbsentFile == [exists |-> FALSE, docs |-> <<>>]

FileOf(docs) == [exists |-> TRUE, docs |-> docs]

\* findAll: the collection read; absent storage is created empty
FindAllFileNoInit(f) == f

FindAllFile(f) == IF f.exists THEN f ELSE FileOf(<<>>)

\* const existing = raw[entity]: the collection an operation works on is the
\* one it read, whatever the file holds by the time it writes
ExistingReread(snapshot, current) == current

Existing(snapshot, current) == snapshot

\* "Safe next ID calculation"
NextIdBroken(existing) == Len(existing) + 1

NextId(existing) ==
  IF Len(existing) = 0 THEN 1 ELSE SetMax(IdsOf(existing)) + 1

\* the documents create builds: { _id: nextId++, ...item }
SavedItemNoSpread(nextId, item) == Spread(item, [_id |-> nextId])

SavedItem(nextId, item) == Spread([_id |-> nextId], item)

Created(existing, data) ==
  [k \in 1..Len(data) |-> SavedItem(NextId(existing) + k - 1, data[k])]

\* what findAll does to the storage: fs.readFile, and fs.writeFile of the
\* empty collection when the read found no file
FindAllAccess(f) == IF f.exists THEN {"read"} ELSE {"read", "create"}

\* the document update stores: { ...existing[index], ...safeUpdates }
MergedReplace(doc, data) == Spread([_id |-> doc._id], WithoutId(data[1]))

MergedKeepPayloadId(doc, data) == Spread(doc, data[1])

Merged(doc, data) == Spread(doc, WithoutId(data[1]))

Updated(existing, data, index) ==
  [existing EXCEPT ![index] = Merged(existing[index], data)]

\* ------------------------------------------------------------------------
\* State
\* ------------------------------------------------------------------------
VARIABLES
  file,    \* the resource's backing file: [exists, docs]
  call,    \* the last store call made: [op, path, data, id]
  ret,     \* what that call returned or threw: [kind, err, docs]
  prev,    \* the backing file as it was when that call started
  issued,  \* the identities create calls have assigned so far
  plain,   \* TRUE while no create payload has carried an identity field
  access,  \* what that call did to the storage: "read", "create", "write"
  pc,      \* per concurrent call: "idle", "read", "init", "write", "done"
  rcall,   \* per concurrent call: the call made
  snap,    \* per concurrent call: the collection it read
  seen,    \* per concurrent call: the file version it read
  rout,    \* per concurrent call: what it returned
  version, \* how many times the file's content has changed
  probe,   \* the router operation applied and its arguments
  req,     \* the request object, as the operation left it
  res,     \* the response: [sent, status]
  out,     \* what the router operation returned or threw
  now,     \* Date.now(), in milliseconds
  signed,  \* the tokens sign has returned: [token, claims, at]
  tokenBlacklist, \* the revoked token texts
  acall,   \* the last token / auth operation: [op, token, scheme, at]
  aout,    \* what it returned: [kind, claims]
  lapsed,  \* the signed tokens verify has refused, with the time of the
           \* first refusal: [token, at]
  payments, \* the payments collection: records [_id, reference, status]
  vpc,     \* per verifyPayment call: "idle", "checked", "read"
  vcall,   \* per verifyPayment call: [reference, id, status, snap]
  vout     \* per verifyPayment call: the answer sent: [status, data]

seqVars == <<call, ret, prev, issued, plain, access>>

raceVars == <<pc, rcall, snap, seen, rout, version>>

routerVars == <<probe, req, res, out>>

authVars == <<now, signed, tokenBlacklist, acall, aout, lapsed>>

payVars == <<payments, vpc, vcall, vout>>

vars == <<file, call, ret, prev, issued, plain, access,
          pc, rcall, snap, seen, rout, version,
          probe, req, res, out,
          now, signed, tokenBlacklist, acall, aout, lapsed,
          payments, vpc, vcall, vout>>

NoCall == [op |-> "none", path |-> "", data |-> <<>>, id |-> 0]

NoRet == [kind |-> "none", err |-> "", docs |-> <<>>]

Ok(docs) == [kind |-> "ok", err |-> "", docs |-> docs]

Throw(err) == [kind |-> "throw", err |-> err, docs |-> <<>>]

\* ------------------------------------------------------------------------
\* ModelTools: the operations, each run to completion
\* ------------------------------------------------------------------------
\* findAll(filePath)
FindAll(path) ==
  /\ call = NoCall
  /\ call' = [op |-> "findAll", path |-> path, data |-> <<>>, id |-> 0]
  /\ prev' = file
  /\ IF ~ValidPath(path)
       THEN /\ ret' = Throw("path")
            /\ file' = file
            /\ access' = {}
       ELSE /\ file' = FindAllFile(file)
            /\ ret' = Ok(file'.docs)
            /\ access' = FindAllAccess(file)
  /\ UNCHANGED <<issued, plain, raceVars, routerVars, authVars, payVars>>

\* findOne(filePath, _id)
FindOne(path, id) ==
  /\ call = NoCall
  /\ call' = [op |-> "findOne", path |-> path, data |-> <<>>, id |-> id]
  /\ prev' = file
  /\ IF ~ValidPath(path)
       THEN /\ ret' = Throw("path")
            /\ file' = file
            /\ access' = {}
       ELSE IF ~ValidID(id)
         THEN /\ ret' = Throw("id")
              /\ file' = file
              /\ access' = {}
         ELSE LET raw == FindAllFile(file)
                  k == FindIndex(raw.docs, id)
              IN /\ file' = raw
                 /\ ret' = Ok(IF k = 0 THEN <<>> ELSE <<raw.docs[k]>>)
                 /\ access' = FindAllAccess(file)
  /\ UNCHANGED <<issued, plain, raceVars, routerVars, authVars, payVars>>

\* create(filePath, data)
Create(path, data) ==
  /\ call = NoCall
  /\ call' = [op |-> "create", path |-> path, data |-> data, id |-> 0]
  /\ prev' = file
  /\ IF ~ValidPath(path)
       THEN /\ ret' = Throw("path")
            /\ access' = {}
            /\ UNCHANGED <<file, issued, plain>>
       ELSE IF ~ValidData(data)
         THEN /\ ret' = Throw("data")
              /\ access' = {}
              /\ UNCHANGED <<file, issued, plain>>
         ELSE LET existing == FindAllFile(file).docs
                  created == Created(existing, data)
              IN /\ Len(existing) + Len(data) <= MaxDocs
                 /\ NextId(existing) + Len(data) - 1 <= MaxId
                 /\ file' = FileOf(existing \o created)
                 /\ ret' = Ok(created)
                 /\ access' = FindAllAccess(file) \cup {"write"}
                 /\ issued' = issued \cup IdsOf(created)
                 /\ plain' = (plain /\ \A k \in 1..Len(data) : ~HasId(data[k]))
  /\ UNCHANGED <<raceVars, routerVars, authVars, payVars>>

\* update(filePath, data, _id)
Update(path, data, id) ==
  /\ call = NoCall
  /\ call' = [op |-> "update", path |-> path, data |-> data, id |-> id]
  /\ prev' = file
  /\ IF ~ValidPath(path)
       THEN /\ ret' = Throw("path")
            /\ file' = file
            /\ access' = {}
       ELSE IF ~ValidID(id)
         THEN /\ ret' = Throw("id")
              /\ file' = file
              /\ access' = {}
         ELSE IF ~ValidData(data)
           THEN /\ ret' = Throw("data")
                /\ file' = file
                /\ access' = {}
           ELSE LET raw == FindAllFile(file)
                    index == FindIndex(raw.docs, id)
                IN IF index = 0
                     THEN /\ file' = raw
                          /\ ret' = Ok(<<>>)
                          /\ access' = FindAllAccess(file)
                     ELSE /\ file' = FileOf(Updated(raw.docs, data, index))
                          /\ ret' = Ok(<<file'.docs[index]>>)
                          /\ access' = FindAllAccess(file) \cup {"write"}
  /\ UNCHANGED <<issued, plain, raceVars, routerVars, authVars, payVars>>

\* delete(filePath, _id)
Delete(path, id) ==
  /\ call = NoCall
  /\ call' = [op |-> "delete", path |-> path, data |-> <<>>, id |-> id]
  /\ prev' = file
  /\ IF ~ValidPath(path)
       THEN /\ ret' = Throw("path")
            /\ file' = file
            /\ access' = {}
       ELSE IF ~ValidID(id)
         THEN /\ ret' = Throw("id")
              /\ file' = file
              /\ access' = {}
         ELSE LET raw == FindAllFile(file)
                  index == FindIndex(raw.docs, id)
              IN IF index = 0
                   THEN /\ file' = raw
                        /\ ret' = Ok(<<>>)
                        /\ access' = FindAllAccess(file)
                   ELSE /\ file' = FileOf(RemoveAt(raw.docs, index))
                        /\ ret' = Ok(<<raw.docs[index]>>)
                        /\ access' = FindAllAccess(file) \cup {"write"}
  /\ UNCHANGED <<issued, plain, raceVars, routerVars, authVars, payVars>>

\* the caller takes the result; only then is the next call made
Return ==
  /\ call # NoCall
  /\ call' = NoCall
  /\ ret' = NoRet
  /\ prev' = file
  /\ access' = {}
  /\ UNCHANGED <<file, issued, plain, raceVars, routerVars, authVars, payVars>>

\* ------------------------------------------------------------------------
\* Specification: store calls made one after another
\* ------------------------------------------------------------------------
\* ------------------------------------------------------------------------
\* Router: strings
\* ------------------------------------------------------------------------
\* A string is a sequence of tokens.  "/", ":" and "?" are the characters the
\* router looks at; every other token stands for a run of other characters.
UsersRoute == <<"/", "users">>

UserRoute == <<"/", "users", "/", ":", "userId">>

LoginRoute == <<"/", "users", "/", "login">>

VerifyRoute == <<"/", "payments", "/", "verify", "/", ":", "reference">>

PaymentsRoute == <<"/", "payments">>

PaymentRoute == <<"/", "payments", "/", ":", "paymentId">>

PayProductRoute == <<"/", "payments", "/", "pay-product">>

Routes == {UsersRoute, UserRoute, LoginRoute, VerifyRoute,
           PaymentsRoute, PaymentRoute, PayProductRoute}

\* request targets (req.url)
Urls ==
  { <<"/">>,
    <<"/", "users">>,
    <<"/", "users", "/">>,
    <<"/", "users", "?", "page">>,
    <<"/", "users", "/", "42">>,
    <<"/", "users", "/", "42", "/">>,
    <<"/", "users", "/", "42", "?", "page">>,
    <<"/", "users", "/", "42", "/", "extra">>,
    <<"/", "users", "/", "login">>,
    <<"/", "Users", "/", "42">>,
    <<"/", "products">>,
    <<"/", "products", "/", "42">>,
    <<"/", "payments", "/", "verify", "/", "ref">>,
    <<"/", "payments">>,
    <<"/", "payments", "/", "7">>,
    <<"/", "payments", "/", "pay-product">> }

\* request methods; the router declares routes for the first five
RouteMethods == {"GET", "POST", "PUT", "PATCH", "DELETE"}

Methods == RouteMethods \cup {"OPTIONS"}

\* String.prototype.split('/'): the pieces between the slashes, empty pieces
\* included
RECURSIVE SplitFrom(_, _)
SplitFrom(s, piece) ==
  IF s = <<>>
    THEN <<piece>>
    ELSE IF Head(s) = "/"
      THEN <<piece>> \o SplitFrom(Tail(s), <<>>)
      ELSE SplitFrom(Tail(s), Append(piece, Head(s)))

Split(s) == SplitFrom(s, <<>>)

\* String.prototype.startsWith(':')
StartsWithColon(piece) == Len(piece) > 0 /\ Head(piece) = ":"

\* new URL(req.url || '/', base).pathname: the target up to the query
RECURSIVE BeforeQuery(_)
BeforeQuery(s) ==
  IF s = <<>> \/ Head(s) = "?"
    THEN <<>>
    ELSE <<Head(s)>> \o BeforeQuery(Tail(s))

Pathname(url) == IF BeforeQuery(url) = <<>> THEN <<"/">> ELSE BeforeQuery(url)

\* ------------------------------------------------------------------------
\* Router: errors
\* ------------------------------------------------------------------------
BAD_REQUEST == 400

UNAUTHORIZED == 401

NOT_FOUND == 404

METHOD_NOT_ALLOWED == 405

INTERNAL_SERVER_ERROR == 500

OK == 200

NoErr == [class |-> "", status |-> 0]

\* an AppError made by one of the factories AppError.BadRequest(...), ...
AppErr(status) == [class |-> "AppError", status |-> status]

\* any other Error
PlainErr == [class |-> "Error", status |-> 0]

\* `new AppError.BadRequest(...)`, `new AppError.MethodNotAllowed(...)`: the
\* factories are static methods, which are not constructors, so evaluating
\* the `new` expression throws a TypeError and no AppError is made
NewOnFactory(status) == [class |-> "TypeError", status |-> 0]

\* ------------------------------------------------------------------------
\* Router: the path matcher
\* ------------------------------------------------------------------------
NoIds == [n \in {} |-> <<>>]

\* the loop of _getIdFromParams: each ':name' piece of the route captures the
\* piece of the path at its position, a later piece of the same name winning
Track(ROUTE, PATHNAME) ==
  LET marked == {i \in 1..Len(ROUTE) : StartsWithColon(ROUTE[i])}
      names == {Tail(ROUTE[i]) : i \in marked}
  IN [n \in names |->
        PATHNAME[SetMax({i \in marked : Tail(ROUTE[i]) = n})]]

\* _getIdFromParams(route, pathname)
GetIdFromParams(route, pathname) ==
  LET ROUTE == Split(route)
      PATHNAME == Split(pathname)
  IN IF Len(PATHNAME) # Len(ROUTE)
       THEN [kind |-> "throw", err |-> AppErr(BAD_REQUEST), ids |-> NoIds]
       ELSE [kind |-> "ok", err |-> NoErr, ids |-> Track(ROUTE, PATHNAME)]

\* a request object
NewReq(method, url) ==
  [method |-> method, url |-> url, params |-> <<>>,
   hasIds |-> FALSE, ids |-> NoIds]

\* _attachIdsToRequest(req, route, pathname); an unset pathname is <<>>
AttachIdsToRequest(r, route, pathname) ==
  LET pn == IF pathname = <<>> THEN Pathname(r.url) ELSE pathname
      got == GetIdFromParams(route, pn)
  IN IF got.kind = "throw"
       THEN [kind |-> "throw", err |-> got.err, req |-> r]
       ELSE [kind |-> "ok", err |-> NoErr,
             req |-> [r EXCEPT !.hasIds = TRUE, !.ids = got.ids]]

\* _hasPathParams(req, route)
HasPathParams(r, route) ==
  LET pathname == Pathname(r.url)
      attached == AttachIdsToRequest(r, route, r.params)
  IN IF attached.kind = "throw"
       THEN [kind |-> "throw", err |-> attached.err, value |-> FALSE,
             req |-> r]
       ELSE [kind |-> "ok", err |-> NoErr,
             value |-> DOMAIN GetIdFromParams(route, pathname).ids # {},
             req |-> attached.req]

\* ------------------------------------------------------------------------
\* Router: the dispatcher
\* ------------------------------------------------------------------------
\* what a handler does when called: it sends its response and returns, it
\* throws an AppError, or it throws some other error; "notfn" is a handler
\* argument that is not a function
HandlerKinds == {"returns", "throwsAppError", "throwsError"}

FnArgs == HandlerKinds \cup {"notfn"}

\* isGetRoute(req), isPostRoute(req), ...: the method alone is compared
RouteCheck(method, r, route) == r.method = method

\* asyncHandler(fn)(req, res)
AsyncHandler(fn) ==
  IF fn = "returns"
    THEN [kind |-> "ok", err |-> NoErr, invoked |-> TRUE]
    ELSE IF fn = "throwsAppError"
      THEN [kind |-> "throw", err |-> AppErr(NOT_FOUND), invoked |-> TRUE]
      ELSE [kind |-> "throw", err |-> AppErr(INTERNAL_SERVER_ERROR),
            invoked |-> TRUE]

\* #handle(req, res, method, route, fn), reached through get, post, put,
\* patch and delete
Handle(r, method, route, fn) ==
  IF ~RouteCheck(method, r, route)
    THEN [kind |-> "throw", err |-> NewOnFactory(BAD_REQUEST),
          invoked |-> FALSE]
    ELSE IF fn = "notfn"
      THEN [kind |-> "throw", err |-> NewOnFactory(METHOD_NOT_ALLOWED),
            invoked |-> FALSE]
      ELSE AsyncHandler(fn)

\* ------------------------------------------------------------------------
\* The response and the auth guard
\* ------------------------------------------------------------------------
\* sent: res.headersSent; status: res.statusCode; tried: the statuses of the
\* sendResponse calls made, in order; writes: how many of them wrote
NoRes == [sent |-> FALSE, status |-> 0, tried |-> <<>>, writes |-> 0]

\* httpUtils.sendResponse(res, {status, ...}): nothing once headers are sent
SendResponseUnguarded(r, status) ==
  [sent |-> TRUE, status |-> status, tried |-> Append(r.tried, status),
   writes |-> r.writes + 1]

SendResponse(r, status) ==
  IF r.sent
    THEN [r EXCEPT !.tried = Append(r.tried, status)]
    ELSE [sent |-> TRUE, status |-> status,
          tried |-> Append(r.tried, status), writes |-> r.writes + 1]

\* the Authorization header: absent, not 'Bearer ...', a token that does not
\* verify, a token that verifies
AuthHeaders == {"absent", "malformed", "badtoken", "goodtoken"}

\* Auth.isAuthenticated(req, res): every failure is answered 401 and the call
\* returns; with a verified token the lookup of the user throws inside the
\* try block, the catch block makes an AppError and drops it, and the call
\* returns with nothing sent and nothing attached
IsAuthenticated(r, auth) ==
  IF auth = "goodtoken" THEN r ELSE SendResponse(r, UNAUTHORIZED)

\* ------------------------------------------------------------------------
\* TokenService
\* ------------------------------------------------------------------------
\* most tokens signed, and most tokens revoked, in the model
MaxTokens == 1

MaxRevoked == 1

SECRET == "super-secret-key"

\* 60 * 60 seconds
EXPIRES_IN == 3600

\* Math.floor(Date.now() / 1000)
Seconds(ms) == ms \div 1000

\* the instants at which the model looks at the clock, in milliseconds:
\* around a signing second and around the expiry second of what it signed
Instants == {0, 999, 3599999, 3600000, 3600999, 3601000, 3602000}

\* the claim sets given to sign: what login signs, and one without userId
ClaimSets == {[userId |-> 1, email |-> "u@x.io"], [email |-> "u@x.io"]}

\* A token text is the sequence of its dot-separated parts, so token.split('.')
\* is the sequence itself and the template `${a}.${b}.${c}` is <<a, b, c>>.
\* A part is a text: the base64url of the JSON of an object, the base64url
\* of a MAC, or the empty text.  `alt` tells texts that differ in one
\* character apart (1) and marks a text cut short by one character (2).
EmptyPart == [kind |-> "empty", obj |-> EmptyItem, alt |-> 0]

\* what destructuring yields past the end of the array
UndefinedPart == [kind |-> "undefined", obj |-> EmptyItem, alt |-> 0]

\* Buffer.from(JSON.stringify(obj)).toString('base64url')
Base64Json(obj) == [kind |-> "json", obj |-> obj, alt |-> 0]

\* JSON.parse(Buffer.from(part, 'base64url').toString())
ParseBase64Json(part) == part.obj

\* crypto.createHmac('sha256', secret).update(`${h}.${p}`).digest('base64url')
Hmac(secret, h, p) ==
  [kind |-> "mac", obj |-> [secret |-> secret, h |-> h, p |-> p], alt |-> 0]

Header == Base64Json([alg |-> "HS256", typ |-> "JWT"])

\* the text with one character changed, and with its last character dropped
Flip(part) == [part EXCEPT !.alt = 1]

Cut(part) == [part EXCEPT !.alt = 2]

\* Buffer.from(text).length, relative to the unaltered text
ByteLength(part) == IF part.alt = 2 THEN -1 ELSE 0

\* TokenService.sign(payload) at time t
Sign(payload, t) ==
  LET body == Base64Json(Spread(payload,
                                [exp |-> Seconds(t) + EXPIRES_IN]))
  IN <<Header, body, Hmac(SECRET, Header, body)>>

\* const [header, payload, signature] = token.split('.')
PartAt(token, i) == IF i <= Len(token) THEN token[i] ELSE UndefinedPart

\* !part
Falsy(part) == part.kind \in {"empty", "undefined"}

NoClaims == EmptyItem

Null == [kind |-> "null", claims |-> NoClaims]

Decoded(claims) == [kind |-> "claims", claims |-> claims]

Thrown == [kind |-> "throw", claims |-> NoClaims]

\* decoded.exp < Math.floor(Date.now() / 1000)
ExpiredOnTheSecond(decoded, t) == decoded.exp = Seconds(t)

Expired(decoded, t) == decoded.exp < Seconds(t)

\* TokenService.verify(token) at time t
Verify(token, t) ==
  LET header == PartAt(token, 1)
      payload == PartAt(token, 2)
      signature == PartAt(token, 3)
      expectedSig == Hmac(SECRET, header, payload)
  IN IF Falsy(header) \/ Falsy(payload) \/ Falsy(signature)
       THEN Null
       ELSE IF ByteLength(signature) # ByteLength(expectedSig)
         THEN Thrown
         ELSE IF signature # expectedSig
           THEN Null
           ELSE LET decoded == ParseBase64Json(payload)
                IN IF Expired(decoded, t) THEN Null ELSE Decoded(decoded)

\* the token texts a client may present, made from a signed token
Variants(token) ==
  { token,
    token \o <<Base64Json([extra |-> 1])>>,
    <<token[1], token[2]>>,
    <<token[1], token[2], EmptyPart>>,
    <<token[1], Flip(token[2]), token[3]>>,
    <<token[1], token[2], Flip(token[3])>>,
    <<token[1], token[2], Cut(token[3])>> }

Presented(sgn) == UNION {Variants(s.token) : s \in sgn}

\* ------------------------------------------------------------------------
\* AuthService.logout / isTokenRevoked and Auth.authenticate
\* ------------------------------------------------------------------------
\* the empty token text: ''.split('.') is ['']
EmptyToken == <<EmptyPart>>

\* the Authorization header: absent, another scheme, or 'Bearer <token>'
Schemes == {"none", "Basic", "Bearer"}

\* AuthService.isTokenRevoked(token)
IsTokenRevoked(blacklist, token) == token \in blacklist

\* Auth.authenticate(req, res) at time t: what it returns and the response
AuthenticateFn(scheme, token, rs, t, blacklist) ==
  IF scheme # "Bearer"
    THEN [ret |-> Null, res |-> SendResponse(rs, UNAUTHORIZED)]
    ELSE LET decoded == Verify(token, t)
         IN IF decoded.kind = "throw"
              THEN [ret |-> Null, res |-> rs]
              ELSE IF \/ decoded.kind = "null"
                      \/ "userId" \notin DOMAIN decoded.claims
                      \/ "email" \notin DOMAIN decoded.claims
                THEN [ret |-> Null, res |-> SendResponse(rs, UNAUTHORIZED)]
                ELSE [ret |-> decoded, res |-> rs]

NoAuthCall == [op |-> "none", token |-> <<>>, scheme |-> "", at |-> 0]

NoAuthOut == [kind |-> "none", claims |-> NoClaims]

AuthIdle ==
  /\ now = 0
  /\ signed = {}
  /\ tokenBlacklist = {}
  /\ acall = NoAuthCall
  /\ aout = NoAuthOut
  /\ lapsed = {}

\* ------------------------------------------------------------------------
\* PaymentsController: the payments collection and its verification
\* ------------------------------------------------------------------------
MaxPayments == 2

References == {"PAY_1", "PAY_2"}

\* the two outcomes of the simulated gateway (Math.random() >= 0.3)
GatewayOutcomes == {"success", "failed"}

PaymentStatuses == {"pending"} \cup GatewayOutcomes

\* the verifyPayment calls in flight at once
VProcs == {1, 2}

NoVerify == [reference |-> "", id |-> 0, status |-> "", snap |-> <<>>]

NoAnswer == [status |-> 0, data |-> ""]

PayIdle ==
  /\ payments = <<>>
  /\ vpc = [p \in VProcs |-> "idle"]
  /\ vcall = [p \in VProcs |-> NoVerify]
  /\ vout = [p \in VProcs |-> NoAnswer]

Procs == {1, 2}

SeqIdle ==
  /\ call = NoCall
  /\ ret = NoRet
  /\ prev = file
  /\ issued = {}
  /\ plain = TRUE
  /\ access = {}

RaceIdle ==
  /\ pc = [p \in Procs |-> "idle"]
  /\ rcall = [p \in Procs |-> NoCall]
  /\ snap = [p \in Procs |-> <<>>]
  /\ seen = [p \in Procs |-> 0]
  /\ rout = [p \in Procs |-> NoRet]
  /\ version = 0

NoProbe ==
  [op |-> "none", method |-> "", route |-> <<>>, fn |-> "", auth |-> "",
   parse |-> ""]

NoOut ==
  [kind |-> "none", value |-> FALSE, invoked |-> FALSE, handler |-> "",
   err |-> NoErr]

RouterIdle ==
  /\ probe = NoProbe
  /\ req = NewReq("", <<>>)
  /\ res = NoRes
  /\ out = NoOut

Init ==
  /\ file \in {AbsentFile, FileOf(<<>>)}
  /\ SeqIdle
  /\ RaceIdle
  /\ RouterIdle
  /\ AuthIdle
  /\ PayIdle

Next ==
  \/ \E path \in PathArgs : FindAll(path)
  \/ \E path \in PathArgs, id \in IdArgs : FindOne(path, id)
  \/ \E path \in PathArgs, data \in Payloads : Create(path, data)
  \/ \E path \in PathArgs, data \in UpdatePayloads, id \in IdArgs :
       Update(path, data, id)
  \/ \E path \in PathArgs, id \in IdArgs : Delete(path, id)
  \/ Return

Spec == Init /\ [][Next]_vars

\* ------------------------------------------------------------------------
\* ModelTools: calls whose storage accesses interleave
\* ------------------------------------------------------------------------
\* Every operation awaits findAll (fs.readFile, and fs.writeFile of the empty
\* collection when the file is absent) and then awaits fs.writeFile of the
\* whole collection.  Each await is a point where another call may run; a
\* single readFile or writeFile is atomic.  Each call here is made with
\* arguments that pass validation, and each caller makes one call.
RacePayloads == UNION {[1..n -> PlainItems] : n \in 1..MaxBatch}

RaceCalls ==
  {[op |-> "create", path |-> ResourcePath, data |-> d, id |-> 0] :
     d \in RacePayloads}
  \cup {[op |-> "update", path |-> ResourcePath, data |-> d, id |-> i] :
          d \in RacePayloads, i \in 1..MaxId}
  \cup {[op |-> "delete", path |-> ResourcePath, data |-> <<>>, id |-> i] :
          i \in 1..MaxId}

\* collections the file may hold when the concurrent calls start
RaceFiles ==
  {AbsentFile, FileOf(<<>>), FileOf(<<SavedItem(1, [name |-> "a"])>>)}

\* the version of the file after a write: it counts changes of content
Bump(old, new) == IF new = old THEN version ELSE version + 1

StoredOnCurrent(existing, current, created) == current \o created

\* what create hands to fs.writeFile: the collection it read, with the new
\* records pushed onto it, whatever the file holds by then
Stored(existing, current, created) == existing \o created

\* the call is made: validation passes, findAll is awaited
RStart(p, c) ==
  /\ pc[p] = "idle"
  /\ pc' = [pc EXCEPT ![p] = "read"]
  /\ rcall' = [rcall EXCEPT ![p] = c]
  /\ UNCHANGED <<file, snap, seen, rout, version, seqVars, routerVars, authVars, payVars>>

\* findAll: fs.readFile resolves with the collection, or rejects with ENOENT
RRead(p) ==
  /\ pc[p] = "read"
  /\ IF file.exists
       THEN /\ snap' = [snap EXCEPT ![p] = file.docs]
            /\ seen' = [seen EXCEPT ![p] = version]
            /\ pc' = [pc EXCEPT ![p] = "write"]
       ELSE /\ pc' = [pc EXCEPT ![p] = "init"]
            /\ UNCHANGED <<snap, seen>>
  /\ UNCHANGED <<file, rcall, rout, version, seqVars, routerVars, authVars, payVars>>

\* findAll after ENOENT: fs.writeFile of the empty collection
RInit(p) ==
  /\ pc[p] = "init"
  /\ file' = FileOf(<<>>)
  /\ version' = Bump(file, file')
  /\ snap' = [snap EXCEPT ![p] = <<>>]
  /\ seen' = [seen EXCEPT ![p] = version']
  /\ pc' = [pc EXCEPT ![p] = "write"]
  /\ UNCHANGED <<rcall, rout, seqVars, routerVars, authVars, payVars>>

\* the rest of the operation: the change is computed on the collection read
\* and the whole collection is written back
RWrite(p) ==
  /\ pc[p] = "write"
  /\ LET c == rcall[p]
         existing == Existing(snap[p], file.docs)
         index == FindIndex(existing, c.id)
     IN IF c.op = "create"
          THEN /\ file' = FileOf(Stored(existing, file.docs,
                                        Created(existing, c.data)))
               /\ rout' = [rout EXCEPT ![p] = Ok(Created(existing, c.data))]
          ELSE IF index = 0
            THEN /\ file' = file
                 /\ rout' = [rout EXCEPT ![p] = Ok(<<>>)]
            ELSE IF c.op = "update"
              THEN /\ file' = FileOf(Updated(existing, c.data, index))
                   /\ rout' = [rout EXCEPT ![p] = Ok(<<file'.docs[index]>>)]
              ELSE /\ file' = FileOf(RemoveAt(existing, index))
                   /\ rout' = [rout EXCEPT ![p] = Ok(<<existing[index]>>)]
  /\ version' = Bump(file, file')
  /\ pc' = [pc EXCEPT ![p] = "done"]
  /\ UNCHANGED <<rcall, snap, seen, seqVars, routerVars, authVars, payVars>>

RaceInit ==
  /\ file \in RaceFiles
  /\ SeqIdle
  /\ RaceIdle
  /\ RouterIdle
  /\ AuthIdle
  /\ PayIdle

RaceNext ==
  \/ \E p \in Procs, c \in RaceCalls : RStart(p, c)
  \/ \E p \in Procs : RRead(p)
  \/ \E p \in Procs : RInit(p)
  \/ \E p \in Procs : RWrite(p)

SpecRace == RaceInit /\ [][RaceNext]_vars

\* ------------------------------------------------------------------------
\* userRouter: the routes of the users resource, in declaration order
\* ------------------------------------------------------------------------
\* kind "exact": the pathname is compared with the route, and with the route
\* followed by "/"; kind "param": _hasPathParams(req, check) decides, then
\* the parameters of `attach` are attached and the handler is dispatched
UserTable ==
  << [method |-> "GET", kind |-> "exact", check |-> UsersRoute,
      attach |-> UsersRoute, handler |-> "getUsers", guarded |-> TRUE],
     [method |-> "GET", kind |-> "param", check |-> UserRoute,
      attach |-> UserRoute, handler |-> "getUser", guarded |-> FALSE],
     [method |-> "POST", kind |-> "exact", check |-> UsersRoute,
      attach |-> UsersRoute, handler |-> "registerUser", guarded |-> FALSE],
     [method |-> "POST", kind |-> "exact", check |-> LoginRoute,
      attach |-> LoginRoute, handler |-> "login", guarded |-> FALSE],
     [method |-> "PUT", kind |-> "param", check |-> UserRoute,
      attach |-> UserRoute, handler |-> "updateUser", guarded |-> FALSE],
     [method |-> "PATCH", kind |-> "param", check |-> UserRoute,
      attach |-> UserRoute, handler |-> "updateUser", guarded |-> FALSE],
     [method |-> "DELETE", kind |-> "param", check |-> UserRoute,
      attach |-> UserRoute, handler |-> "deleteUser", guarded |-> FALSE] >>

\* the body of one route block: the guard if the route has one, then
\* router.get / post / put / patch / delete with the route's handler
RouteBlock(e, r, rs, auth, fn) ==
  LET guardedRes == IF e.guarded THEN IsAuthenticated(rs, auth) ELSE rs
      d == Handle(r, e.method, e.attach, fn)
  IN IF d.kind = "throw"
       THEN [kind |-> "throw", err |-> d.err, handler |-> e.handler,
             invoked |-> d.invoked, req |-> r, res |-> guardedRes]
       ELSE [kind |-> "handled", err |-> NoErr, handler |-> e.handler,
             invoked |-> d.invoked, req |-> r,
             res |-> SendResponse(guardedRes, OK)]

\* the route blocks from the i-th on
RECURSIVE RunRoutes(_, _, _, _, _, _)
RunRoutes(table, i, r, rs, auth, fn) ==
  IF i > Len(table)
    THEN [kind |-> "unhandled", err |-> NoErr, handler |-> "",
          invoked |-> FALSE, req |-> r, res |-> rs]
    ELSE
      LET e == table[i]
          pathname == Pathname(r.url)
      IN IF r.method # e.method
           THEN RunRoutes(table, i + 1, r, rs, auth, fn)
           ELSE IF e.kind = "strict"
             THEN IF pathname = e.check
                    THEN RouteBlock(e, r, rs, auth, fn)
                    ELSE RunRoutes(table, i + 1, r, rs, auth, fn)
           ELSE IF e.kind = "exact"
             THEN IF pathname = e.check \/ pathname = e.check \o <<"/">>
                    THEN RouteBlock(e, r, rs, auth, fn)
                    ELSE RunRoutes(table, i + 1, r, rs, auth, fn)
             ELSE
               LET h == HasPathParams(r, e.check)
                   a == AttachIdsToRequest(h.req, e.attach, pathname)
               IN IF h.kind = "throw"
                    THEN [kind |-> "throw", err |-> h.err, handler |-> "",
                          invoked |-> FALSE, req |-> h.req, res |-> rs]
                    ELSE IF ~h.value
                      THEN RunRoutes(table, i + 1, h.req, rs, auth, fn)
                      ELSE IF a.kind = "throw"
                        THEN [kind |-> "throw", err |-> a.err,
                              handler |-> "", invoked |-> FALSE,
                              req |-> a.req, res |-> rs]
                        ELSE RouteBlock(e, a.req, rs, auth, fn)

\* userRouter(req, res)
UserRouter(r, rs, auth, fn) == RunRoutes(UserTable, 1, r, rs, auth, fn)

\* ------------------------------------------------------------------------
\* paymentRouter: the routes of the payments resource, in declaration order
\* ------------------------------------------------------------------------
\* kind "strict": the pathname is compared with the route alone
PaymentTable ==
  << [method |-> "GET", kind |-> "exact", check |-> PaymentsRoute,
      attach |-> PaymentsRoute, handler |-> "getPayments",
      guarded |-> FALSE],
     [method |-> "GET", kind |-> "param", check |-> PaymentRoute,
      attach |-> PaymentRoute, handler |-> "getPayment", guarded |-> FALSE],
     [method |-> "POST", kind |-> "exact", check |-> PaymentsRoute,
      attach |-> PaymentsRoute, handler |-> "initializePayment",
      guarded |-> FALSE],
     [method |-> "POST", kind |-> "strict", check |-> PayProductRoute,
      attach |-> PayProductRoute, handler |-> "payForProduct",
      guarded |-> FALSE],
     [method |-> "GET", kind |-> "param", check |-> VerifyRoute,
      attach |-> VerifyRoute, handler |-> "verifyPayment",
      guarded |-> FALSE] >>

\* paymentRouter(req, res)
PaymentRouter(r, rs, fn) == RunRoutes(PaymentTable, 1, r, rs, "absent", fn)

\* ------------------------------------------------------------------------
\* Router operations, each applied once to arguments drawn from the sets
\* ------------------------------------------------------------------------
\* router._hasPathParams(req, route) on a fresh request; req.params is unset
\* or, as the server sets it, the pathname
Match(route, url, withParams) ==
  /\ probe = NoProbe
  /\ LET r == [NewReq("GET", url) EXCEPT
                 !.params = IF withParams THEN Pathname(url) ELSE <<>>]
         h == HasPathParams(r, route)
     IN /\ probe' = [NoProbe EXCEPT !.op = "match", !.route = route]
        /\ req' = h.req
        /\ res' = NoRes
        /\ out' = [NoOut EXCEPT !.kind = h.kind, !.value = h.value,
                                !.err = h.err]
  /\ UNCHANGED <<file, seqVars, raceVars, authVars, payVars>>

\* router.get / post / put / patch / delete (req, res, route, fn)
Dispatch(method, route, fn, reqMethod, url) ==
  /\ probe = NoProbe
  /\ LET r == NewReq(reqMethod, url)
         d == Handle(r, method, route, fn)
     IN /\ probe' = [NoProbe EXCEPT !.op = "dispatch", !.method = method,
                                    !.route = route, !.fn = fn]
        /\ req' = r
        /\ res' = IF d.kind = "ok" THEN SendResponse(NoRes, OK) ELSE NoRes
        /\ out' = [NoOut EXCEPT !.kind = d.kind, !.invoked = d.invoked,
                                !.err = d.err]
  /\ UNCHANGED <<file, seqVars, raceVars, authVars, payVars>>

\* the server's request listener: body parsing, req.params, userRouter, the
\* 404 reply when no route handled the request, the 500 reply in the catch
Serve(reqMethod, url, auth, fn, parse) ==
  /\ probe = NoProbe
  /\ probe' = [NoProbe EXCEPT !.op = "serve", !.fn = fn, !.auth = auth,
                              !.parse = parse]
  /\ IF parse = "throws"
       THEN /\ req' = NewReq(reqMethod, url)
            /\ res' = SendResponse(NoRes, INTERNAL_SERVER_ERROR)
            /\ out' = [NoOut EXCEPT !.kind = "throw", !.err = PlainErr]
       ELSE LET r == [NewReq(reqMethod, url) EXCEPT
                        !.params = Pathname(url)]
                routed == UserRouter(r, NoRes, auth, fn)
            IN /\ req' = routed.req
               /\ res' = IF routed.kind = "handled"
                           THEN routed.res
                           ELSE IF routed.kind = "unhandled"
                             THEN SendResponse(routed.res, NOT_FOUND)
                             ELSE SendResponse(routed.res,
                                               INTERNAL_SERVER_ERROR)
               /\ out' = [NoOut EXCEPT !.kind = routed.kind,
                                       !.invoked = routed.invoked,
                                       !.handler = routed.handler,
                                       !.err = routed.err]
  /\ UNCHANGED <<file, seqVars, raceVars, authVars, payVars>>

\* paymentRouter(req, res) on a request prepared as the server's listener
\* prepares it (req.params is the pathname)
RoutePayment(reqMethod, url, fn) ==
  /\ probe = NoProbe
  /\ probe' = [NoProbe EXCEPT !.op = "paymentRouter", !.fn = fn]
  /\ LET r == [NewReq(reqMethod, url) EXCEPT !.params = Pathname(url)]
         routed == PaymentRouter(r, NoRes, fn)
     IN /\ req' = routed.req
        /\ res' = routed.res
        /\ out' = [NoOut EXCEPT !.kind = routed.kind,
                                !.invoked = routed.invoked,
                                !.handler = routed.handler,
                                !.err = routed.err]
  /\ UNCHANGED <<file, seqVars, raceVars, authVars, payVars>>

RouterNext ==
  \/ \E reqMethod \in Methods, url \in Urls, fn \in HandlerKinds :
       RoutePayment(reqMethod, url, fn)
  \/ \E route \in Routes, url \in Urls, withParams \in BOOLEAN :
       Match(route, url, withParams)
  \/ \E method \in RouteMethods, route \in Routes, fn \in FnArgs,
        reqMethod \in Methods, url \in Urls :
       Dispatch(method, route, fn, reqMethod, url)
  \/ \E reqMethod \in Methods, url \in Urls, auth \in AuthHeaders,
        fn \in HandlerKinds, parse \in {"ok", "throws"} :
       Serve(reqMethod, url, auth, fn, parse)

RouterInit ==
  /\ file = AbsentFile
  /\ SeqIdle
  /\ RaceIdle
  /\ RouterIdle
  /\ AuthIdle
  /\ PayIdle

SpecRouter == RouterInit /\ [][RouterNext]_vars

\* ------------------------------------------------------------------------
\* Tokens: signing, verifying, revoking, authenticating as time passes
\* ------------------------------------------------------------------------
\* time passes
Advance(t) ==
  /\ acall = NoAuthCall
  /\ t > now
  /\ now' = t
  /\ UNCHANGED <<signed, tokenBlacklist, acall, aout, lapsed>>
  /\ UNCHANGED <<file, seqVars, raceVars, routerVars, payVars>>

\* TokenService.sign(payload)
SignToken(payload) ==
  /\ acall = NoAuthCall
  /\ Cardinality(signed) < MaxTokens
  /\ LET token == Sign(payload, now)
     IN /\ signed' = signed \cup {[token |-> token, claims |-> payload,
                                   at |-> now]}
        /\ acall' = [op |-> "sign", token |-> token, scheme |-> "",
                     at |-> now]
        /\ aout' = NoAuthOut
  /\ UNCHANGED <<now, tokenBlacklist, lapsed>>
  /\ UNCHANGED <<file, seqVars, raceVars, routerVars, payVars>>

\* TokenService.verify(token)
VerifyToken(token) ==
  /\ acall = NoAuthCall
  /\ acall' = [op |-> "verify", token |-> token, scheme |-> "", at |-> now]
  /\ aout' = Verify(token, now)
  /\ lapsed' = IF /\ token \in {s.token : s \in signed}
                  /\ aout'.kind = "null"
                  /\ token \notin {l.token : l \in lapsed}
                 THEN lapsed \cup {[token |-> token, at |-> now]}
                 ELSE lapsed
  /\ UNCHANGED <<now, signed, tokenBlacklist>>
  /\ UNCHANGED <<file, seqVars, raceVars, routerVars, payVars>>

\* AuthService.logout(token)
Logout(token) ==
  /\ acall = NoAuthCall
  /\ acall' = [op |-> "logout", token |-> token, scheme |-> "", at |-> now]
  /\ IF token = EmptyToken
       THEN /\ aout' = Thrown
            /\ UNCHANGED tokenBlacklist
       ELSE /\ Cardinality(tokenBlacklist \cup {token}) <= MaxRevoked
            /\ tokenBlacklist' = tokenBlacklist \cup {token}
            /\ aout' = NoAuthOut
  /\ UNCHANGED <<now, signed, lapsed>>
  /\ UNCHANGED <<file, seqVars, raceVars, routerVars, payVars>>

\* Auth.authenticate(req, res) on a fresh request and response
Authenticate(scheme, token) ==
  /\ acall = NoAuthCall
  /\ LET a == AuthenticateFn(scheme, token, NoRes, now, tokenBlacklist)
     IN /\ acall' = [op |-> "authenticate", token |-> token,
                     scheme |-> scheme, at |-> now]
        /\ aout' = a.ret
        /\ res' = a.res
  /\ UNCHANGED <<now, signed, tokenBlacklist, lapsed>>
  /\ UNCHANGED <<file, seqVars, raceVars, probe, req, out, payVars>>

\* the caller takes the result; only then is the next call made
AuthReturn ==
  /\ acall # NoAuthCall
  /\ acall' = NoAuthCall
  /\ aout' = NoAuthOut
  /\ res' = NoRes
  /\ UNCHANGED <<now, signed, tokenBlacklist, lapsed>>
  /\ UNCHANGED <<file, seqVars, raceVars, probe, req, out, payVars>>

\* the tokens handed to logout: signed ones, as they are or with a part
\* appended, and the empty text
LogoutArgs(sgn) ==
  {s.token : s \in sgn}
    \cup {s.token \o <<Base64Json([extra |-> 1])>> : s \in sgn}
    \cup {EmptyToken}

\* the Authorization headers: none, another scheme, 'Bearer <token>'
AuthHeaderArgs(sgn) ==
  {[scheme |-> "none", token |-> EmptyToken],
   [scheme |-> "Basic", token |-> EmptyToken]}
    \cup {[scheme |-> "Bearer", token |-> t] :
            t \in Presented(sgn) \cup {EmptyToken}}

AuthNext ==
  \/ \E t \in Instants : Advance(t)
  \/ \E payload \in ClaimSets : SignToken(payload)
  \/ \E token \in Presented(signed) \cup {EmptyToken} : VerifyToken(token)
  \/ \E token \in LogoutArgs(signed) : Logout(token)
  \/ \E h \in AuthHeaderArgs(signed) : Authenticate(h.scheme, h.token)
  \/ AuthReturn

AuthInit ==
  /\ file = AbsentFile
  /\ SeqIdle
  /\ RaceIdle
  /\ RouterIdle
  /\ AuthIdle
  /\ PayIdle

SpecAuth == AuthInit /\ [][AuthNext]_vars

\* ------------------------------------------------------------------------
\* Payment verification, calls interleaved at their awaits (SpecPay)
\* ------------------------------------------------------------------------
\* payments.find(p => p.reference === reference): the index, 0 when absent
FindPayment(docs, reference) ==
  IF \E i \in 1..Len(docs) : docs[i].reference = reference
  THEN CHOOSE i \in 1..Len(docs) :
         /\ docs[i].reference = reference
         /\ \A j \in 1..(i - 1) : docs[j].reference # reference
  ELSE 0

\* existing.findIndex(ex => ex._id === Number(_id)) on payment records
FindPaymentId(docs, id) ==
  IF \E i \in 1..Len(docs) : docs[i]._id = id
  THEN CHOOSE i \in 1..Len(docs) :
         /\ docs[i]._id = id
         /\ \A j \in 1..(i - 1) : docs[j]._id # id
  ELSE 0

\* initializePayment stores a new record with status 'pending' under a
\* fresh reference; it is taken while no verification is in flight
InitializePayment(reference) ==
  /\ \A p \in VProcs : vpc[p] = "idle"
  /\ Len(payments) < MaxPayments
  /\ FindPayment(payments, reference) = 0
  /\ payments' = Append(payments,
                        [_id |-> Len(payments) + 1,
                         reference |-> reference,
                         status |-> "pending"])
  /\ UNCHANGED <<vpc, vcall, vout>>
  /\ UNCHANGED <<file, seqVars, raceVars, routerVars, authVars>>

\* verifyPayment up to the await inside _updatePayment: the collection is
\* read, the payment looked up, a completed payment answered as it is, a
\* pending one given the gateway's outcome
VerifyPayment(p, reference, outcome) ==
  /\ vpc[p] = "idle"
  /\ LET i == FindPayment(payments, reference) IN
       IF i = 0
       THEN /\ vout' = [vout EXCEPT ![p] = [status |-> NOT_FOUND, data |-> ""]]
            /\ UNCHANGED <<vpc, vcall>>
       ELSE IF payments[i].status # "pending"
       THEN /\ vout' = [vout EXCEPT
                          ![p] = [status |-> OK, data |-> payments[i].status]]
            /\ UNCHANGED <<vpc, vcall>>
       ELSE /\ vpc' = [vpc EXCEPT ![p] = "checked"]
            /\ vcall' = [vcall EXCEPT
                           ![p] = [reference |-> reference,
                                   id |-> payments[i]._id,
                                   status |-> outcome,
                                   snap |-> <<>>]]
            /\ vout' = [vout EXCEPT ![p] = NoAnswer]
  /\ UNCHANGED payments
  /\ UNCHANGED <<file, seqVars, raceVars, routerVars, authVars>>

\* ModelTools.update, its read: raw = await this.findAll(filePath)
UpdatePaymentRead(p) ==
  /\ vpc[p] = "checked"
  /\ vpc' = [vpc EXCEPT ![p] = "read"]
  /\ vcall' = [vcall EXCEPT ![p].snap = payments]
  /\ UNCHANGED <<payments, vout>>
  /\ UNCHANGED <<file, seqVars, raceVars, routerVars, authVars>>

\* ModelTools.update, its merge and write: the record of the collection it
\* read takes the new status and the whole collection is written back; then
\* verifyPayment answers with the updated record
UpdatePaymentWrite(p) ==
  /\ vpc[p] = "read"
  /\ LET docs == vcall[p].snap
         i == FindPaymentId(docs, vcall[p].id)
     IN  IF i = 0
         THEN /\ vout' = [vout EXCEPT ![p] = [status |-> OK, data |-> ""]]
              /\ UNCHANGED payments
         ELSE /\ payments' = [docs EXCEPT ![i].status = vcall[p].status]
              /\ vout' = [vout EXCEPT
                            ![p] = [status |-> OK, data |-> vcall[p].status]]
  /\ vpc' = [vpc EXCEPT ![p] = "idle"]
  /\ vcall' = [vcall EXCEPT ![p] = NoVerify]
  /\ UNCHANGED <<file, seqVars, raceVars, routerVars, authVars>>

PayNext ==
  \/ \E reference \in References : InitializePayment(reference)
  \/ \E p \in VProcs, reference \in References, outcome \in GatewayOutcomes :
       VerifyPayment(p, reference, outcome)
  \/ \E p \in VProcs : UpdatePaymentRead(p)
  \/ \E p \in VProcs : UpdatePaymentWrite(p)

PayInit ==
  /\ file = AbsentFile
  /\ SeqIdle
  /\ RaceIdle
  /\ RouterIdle
  /\ AuthIdle
  /\ PayIdle

SpecPay == PayInit /\ [][PayNext]_vars

\* ------------------------------------------------------------------------
\* Claims about the store, calls made one after another (Spec)
\* ------------------------------------------------------------------------
CreateReturned == call.op = "create" /\ ret.kind = "ok"

UpdateReturned == call.op = "update" /\ ret.kind = "ok"

\* C1 (as stated): with payloads that carry no identity field, the identity
\* a create call assigns was never assigned by an earlier create call, even
\* when the record that had it has been deleted since.
C1_NeverReused ==
  [][(call'.op = "create" /\ ret'.kind = "ok" /\ plain')
       => IdsOf(ret'.docs) \cap issued = {}]_vars

\* C1 (amended): with payloads that carry no identity field, every identity
\* a create call assigns is larger than, hence different from, the identity
\* of every record the collection held when the call started; the identity
\* of a deleted record can be assigned again.
C1_AboveStored ==
  (CreateReturned /\ plain) =>
    \A i \in IdsOf(ret.docs) :
      /\ i \notin IdsOf(prev.docs)
      /\ i > MaxIdOf(prev.docs)

\* a create on a non-empty collection, after a record created earlier has
\* been deleted
C1_Witness ==
  /\ CreateReturned
  /\ plain
  /\ Len(prev.docs) > 0
  /\ IdsOf(prev.docs) # issued \ IdsOf(ret.docs)

\* C2: in the persisted collection no two records have the same identity and
\* every identity is a positive integer.
C2_UniquePositive ==
  file.exists =>
    /\ \A j, k \in 1..Len(file.docs) :
         j # k => file.docs[j]._id # file.docs[k]._id
    /\ \A k \in 1..Len(file.docs) : file.docs[k]._id \in Nat \ {0}

\* C9: create with n >= 1 records on a collection whose largest identity is
\* m returns the n input records, the k-th with identity m + k, and persists
\* the collection as the old records followed by the new ones.
C9_CreateContract ==
  CreateReturned =>
    LET m == MaxIdOf(prev.docs)
        n == Len(call.data)
    IN /\ Len(ret.docs) = n
       /\ \A k \in 1..n :
            ret.docs[k] = Spread(call.data[k], [_id |-> m + k])
       /\ file = FileOf(prev.docs \o ret.docs)

\* C10: update of an existing id returns and stores a record whose identity
\* is that id, whatever identity the payload carries, and no record of the
\* collection changes its identity.
C10_UpdateKeepsIdentity ==
  (UpdateReturned /\ call.id \in IdsOf(prev.docs)) =>
    /\ Len(ret.docs) = 1
    /\ ret.docs[1]._id = call.id
    /\ file.docs[FindIndex(prev.docs, call.id)] = ret.docs[1]
    /\ Len(file.docs) = Len(prev.docs)
    /\ \A k \in 1..Len(prev.docs) : file.docs[k]._id = prev.docs[k]._id

\* an update of an existing record whose payload carries another identity
C10_Witness ==
  /\ UpdateReturned
  /\ call.id \in IdsOf(prev.docs)
  /\ HasId(call.data[1])
  /\ call.data[1]._id # call.id

\* the position of the first record of docs with identity id
FirstAt(docs, id) ==
  CHOOSE k \in 1..Len(docs) :
    /\ docs[k]._id = id
    /\ \A j \in 1..(k - 1) : docs[j]._id # id

\* the fields of a payload document other than the identity
PatchFields(item) == (DOMAIN item) \ {"_id"}

\* C11: update of an existing id applies only the first element of the
\* payload: each of its non-identity fields overrides the stored value, every
\* other field of the record keeps its value, the later elements change
\* nothing, and every other record of the collection is unchanged.
C11_UpdateMergesFirstOnly ==
  (UpdateReturned /\ call.id \in IdsOf(prev.docs)) =>
    LET k == FirstAt(prev.docs, call.id)
        old == prev.docs[k]
        u == call.data[1]
        new == file.docs[k]
    IN /\ Len(file.docs) = Len(prev.docs)
       /\ DOMAIN new = (DOMAIN old) \cup PatchFields(u)
       /\ \A f \in PatchFields(u) : new[f] = u[f]
       /\ \A f \in (DOMAIN old) \ PatchFields(u) : new[f] = old[f]
       /\ ret.docs = <<new>>
       /\ \A j \in 1..Len(prev.docs) : j # k => file.docs[j] = prev.docs[j]

\* an update of one of two records with a two-element payload whose first
\* element names no field and whose second element names one
C11_Witness ==
  /\ UpdateReturned
  /\ call.id \in IdsOf(prev.docs)
  /\ Len(prev.docs) = 2
  /\ Len(call.data) = 2
  /\ call.data[1] = EmptyItem
  /\ call.data[2] \in PlainItems
  /\ call.data[2].name # prev.docs[FirstAt(prev.docs, call.id)].name

\* findOne, update and delete with valid arguments
LookupCalled ==
  /\ call.op \in {"findOne", "update", "delete"}
  /\ call.path # ""
  /\ call.id > 0
  /\ call.op = "update" => Len(call.data) > 0

\* C12: findOne, update and delete called with a well-formed id that no
\* record has return an empty result, raise no error and leave the records
\* of the persisted collection as they were.
C12_MissingIdIsEmptyResult ==
  (LookupCalled /\ call.id \notin IdsOf(prev.docs)) =>
    /\ ret = Ok(<<>>)
    /\ file.docs = prev.docs
    /\ file.exists

\* an update and a delete of an identity that a non-empty collection lacks
C12_Witness ==
  /\ LookupCalled
  /\ call.op \in {"update", "delete"}
  /\ Len(prev.docs) > 0
  /\ call.id \notin IdsOf(prev.docs)

\* C13: delete of an existing id removes exactly the record with that
\* identity, returns it, persists the other records unchanged and in their
\* order, and leaves no record with that identity for a later findOne.
C13_DeleteRemovesTheRecord ==
  (call.op = "delete" /\ ret.kind = "ok" /\ call.id \in IdsOf(prev.docs)) =>
    LET k == FirstAt(prev.docs, call.id)
    IN /\ ret.docs = <<prev.docs[k]>>
       /\ Len(file.docs) = Len(prev.docs) - 1
       /\ \A j \in 1..Len(file.docs) :
            file.docs[j] = prev.docs[IF j < k THEN j ELSE j + 1]
       /\ call.id \notin IdsOf(file.docs)

\* C30: whatever fields an input record has, its own _id included, the
\* record create stores and returns has the identity the store computed (the
\* largest identity before the call plus the record's position), so the
\* identities of the records a call adds are new and distinct.
C30_StoreDecidesIdentity ==
  CreateReturned =>
    LET m == MaxIdOf(prev.docs)
        n == Len(prev.docs)
    IN \A k \in 1..Len(ret.docs) :
         /\ ret.docs[k]._id = m + k
         /\ file.docs[n + k]._id = m + k
         /\ \A j \in 1..(n + k - 1) : file.docs[j]._id # file.docs[n + k]._id

\* a call whose resource name, id or payload the validation rejects
MalformedCall ==
  \/ call.op # "none" /\ call.path = ""
  \/ call.op \in {"findOne", "update", "delete"} /\ call.id <= 0
  \/ call.op \in {"create", "update"} /\ Len(call.data) = 0

\* C14: a call with a malformed resource name, an id that is not a positive
\* integer or a malformed payload fails before any storage access: the
\* storage is not read, created or written and is as it was, absent included.
C14_FailFast ==
  MalformedCall =>
    /\ ret.kind = "throw"
    /\ access = {}
    /\ file = prev

\* an update rejected for its id alone, on storage that does not exist
C14_Witness ==
  /\ call.op = "update"
  /\ call.path # ""
  /\ call.id <= 0
  /\ Len(call.data) > 0
  /\ ~prev.exists

\* C15: findAll on storage that does not exist returns the empty collection
\* and leaves the storage existing and holding the empty collection; on
\* existing storage it returns the contents and changes nothing.
C15_FindAllInitialises ==
  (call.op = "findAll" /\ call.path # "") =>
    /\ ret.kind = "ok"
    /\ ~prev.exists => (ret.docs = <<>> /\ file = FileOf(<<>>))
    /\ prev.exists => (ret.docs = prev.docs /\ file = prev)

\* a findAll on absent storage
C15_Witness ==
  /\ call.op = "findAll"
  /\ call.path # ""
  /\ ~prev.exists
  /\ file.exists

\* ------------------------------------------------------------------------
\* Claims about interleaved store calls (SpecRace)
\* ------------------------------------------------------------------------
CreateDone(p) ==
  pc[p] = "done" /\ rcall[p].op = "create" /\ rout[p].kind = "ok"

\* C3: two create calls that both read the collection before either writes
\* it (they read the same version of the file) are assigned the same
\* identity; the witness is the execution the claim says exists.
C3_SameReadSameIdentity ==
  \A p, q \in Procs :
    (p # q /\ CreateDone(p) /\ CreateDone(q) /\ seen[p] = seen[q])
      => rout[p].docs[1]._id = rout[q].docs[1]._id

\* both create calls have returned, each a record with the same identity
C3_Witness ==
  \E p, q \in Procs :
    /\ p # q
    /\ CreateDone(p)
    /\ CreateDone(q)
    /\ seen[p] = seen[q]
    /\ rout[p].docs[1]._id = rout[q].docs[1]._id

\* C27: however create, update and delete calls with plain inputs
\* interleave at their reads and writes, the persisted collection never
\* holds two records with the same identity.
C27_NoStoredDuplicate ==
  \A i, j \in 1..Len(file.docs) :
    i # j => file.docs[i]._id # file.docs[j]._id

\* two creates raced for one identity, both have written and returned, and
\* the collection holds exactly one record under that identity
C27_Witness ==
  \E p, q \in Procs :
    /\ p # q
    /\ CreateDone(p)
    /\ CreateDone(q)
    /\ rout[p].docs[1]._id = rout[q].docs[1]._id
    /\ Cardinality({i \in 1..Len(file.docs) :
                      file.docs[i]._id = rout[p].docs[1]._id}) = 1

\* the call has returned records it created or merged
Acknowledged(p) ==
  pc[p] = "done" /\ rcall[p].op \in {"create", "update"} /\ rout[p].kind = "ok"

InCollection(doc, docs) == \E i \in 1..Len(docs) : docs[i] = doc

\* the step is the write of an update or a delete of that identity
ChangedByUpdateOrDelete(id) ==
  \E q \in Procs :
    /\ pc[q] = "write"
    /\ pc'[q] = "done"
    /\ rcall[q].op \in {"update", "delete"}
    /\ rcall[q].id = id

\* C28: a record that create or update has returned stays in the persisted
\* collection, with the field values returned, until the write of an update
\* or a delete of its identity, whatever the interleaving of the calls.
C28_NoAcknowledgedWriteLost ==
  [][\A p \in Procs :
       Acknowledged(p) =>
         \A k \in 1..Len(rout[p].docs) :
           InCollection(rout[p].docs[k], file.docs)
             => \/ InCollection(rout[p].docs[k], file'.docs)
                \/ ChangedByUpdateOrDelete(rout[p].docs[k]._id)]_vars

\* ------------------------------------------------------------------------
\* Claims about the path matcher and the dispatcher (SpecRouter)
\* ------------------------------------------------------------------------
\* the segments of a pattern or path: the non-empty pieces between slashes
Segments(s) == SelectSeq(Split(s), LAMBDA piece : piece # <<>>)

\* every literal segment of the pattern equals the path's segment there
LiteralsAgree(P, X) ==
  \A i \in 1..Len(P) : ~StartsWithColon(P[i]) => P[i] = X[i]

\* the match the specification describes
Matches(route, path) ==
  /\ Len(Segments(route)) = Len(Segments(path))
  /\ LiteralsAgree(Segments(route), Segments(path))

\* the matcher returned a parameter mapping, empty or not
Matched == probe.op = "match" /\ out.kind = "ok"

EndsWithSlash(s) == Len(s) > 0 /\ s[Len(s)] = "/"

\* C4: for a pattern and a path with the same number of segments the matcher
\* succeeds iff every literal segment of the pattern equals the path's
\* segment at that position, and on success the parameters are the path's
\* segments at the positions of the ':name' markers.
C4_MatchIffLiteralsAgree ==
  (/\ probe.op = "match"
   /\ Len(Split(probe.route)) = Len(Split(Pathname(req.url)))
   /\ Len(Segments(probe.route)) = Len(Segments(Pathname(req.url))))
    => LET P == Segments(probe.route)
           X == Segments(Pathname(req.url))
       IN /\ Matched <=> LiteralsAgree(P, X)
          /\ Matched => (req.hasIds /\ req.ids = Track(P, X))

\* C5: when the pattern and the path differ in segment count the matcher
\* returns 'no match' and throws nothing, and a request whose path differs
\* in segment count from every route of its method is not failed: no route
\* handles it.
C5_CountMismatchIsNoMatch ==
  /\ (/\ probe.op = "match"
      /\ Len(Segments(probe.route)) # Len(Segments(Pathname(req.url))))
       => (out.kind = "ok" /\ ~out.value)
  /\ (/\ probe.op = "serve"
      /\ probe.parse = "ok"
      /\ \A i \in 1..Len(UserTable) :
           UserTable[i].method = req.method =>
             Len(Segments(UserTable[i].check))
               # Len(Segments(Pathname(req.url))))
       => (out.kind = "unhandled" /\ res.status = NOT_FOUND)

\* C6: a path with a trailing slash matches a pattern exactly when the same
\* path without it does, with the same parameters.
C6_TrailingSlashIgnored ==
  (/\ probe.op = "match"
   /\ Len(Segments(Pathname(req.url))) > 0
   /\ ~EndsWithSlash(Pathname(req.url)))
    => LET slashed == Pathname(req.url) \o <<"/">>
           r == [NewReq(req.method, slashed) EXCEPT
                   !.params = IF req.params = <<>> THEN <<>> ELSE slashed]
           h == HasPathParams(r, probe.route)
       IN /\ h.kind = out.kind
          /\ h.value = out.value
          /\ Matched => h.req.ids = req.ids

\* C7: the dispatcher invokes the handler only if the request's method is
\* the declared method and the request's path matches the declared pattern.
C7_InvokedOnlyOnMatch ==
  (probe.op = "dispatch" /\ out.invoked)
    => /\ req.method = probe.method
       /\ Matches(probe.route, Pathname(req.url))

\* C8: a refused dispatch fails with a BadRequest error (400) when the
\* request does not match the declared method and pattern, and with a
\* MethodNotAllowed error (405) when it matches and the handler is not
\* callable.
C8_RefusalErrorClass ==
  (probe.op = "dispatch" /\ out.kind = "throw" /\ ~out.invoked)
    => LET matches == /\ req.method = probe.method
                      /\ Matches(probe.route, Pathname(req.url))
       IN /\ ~matches => out.err = AppErr(BAD_REQUEST)
          /\ (matches /\ probe.fn = "notfn")
               => out.err = AppErr(METHOD_NOT_ALLOWED)

\* ------------------------------------------------------------------------
\* Claims about the auth guard on a guarded route (SpecRouter)
\* ------------------------------------------------------------------------
\* a request for the guarded route GET /users whose credential the guard
\* does not accept
GuardFailed ==
  /\ probe.op = "serve"
  /\ probe.parse = "ok"
  /\ req.method = "GET"
  /\ Pathname(req.url) \in {UsersRoute, UsersRoute \o <<"/">>}
  /\ probe.auth \in {"absent", "malformed", "badtoken"}

\* C17: when the auth guard fails on a route that requires a credential, the
\* request is answered 401 and the route's handler is not invoked.
C17_GuardShortCircuits ==
  GuardFailed =>
    /\ res.sent
    /\ res.status = UNAUTHORIZED
    /\ ~out.invoked

\* ------------------------------------------------------------------------
\* Claims about tokens and authentication (SpecAuth)
\* ------------------------------------------------------------------------
\* the signed token s has not expired at the time of the last call
Unexpired(s) == Seconds(acall.at) < Seconds(s.at) + EXPIRES_IN

\* C16: a token revoked by logout and not expired fails authentication:
\* every later authenticate of 'Bearer <token>' ends Unauthorized and hands
\* no claims on to be attached to the request.
C16_RevokedFailsAuthentication ==
  \A s \in signed :
    ( /\ acall.op = "authenticate"
      /\ acall.scheme = "Bearer"
      /\ acall.token = s.token
      /\ s.token \in tokenBlacklist
      /\ Unexpired(s) )
    => /\ aout.kind # "claims"
       /\ res.sent
       /\ res.status = UNAUTHORIZED

\* C18: verify of a token with expiry e at time t, in whole seconds, returns
\* the failure signal whenever t >= e and the claims only when t < e.
C18_ExpiryAtOrBeforeNowFails ==
  \A s \in signed :
    (acall.op = "verify" /\ acall.token = s.token) =>
      LET e == Seconds(s.at) + EXPIRES_IN
          t == Seconds(acall.at)
      IN /\ t >= e => aout = Null
         /\ aout.kind = "claims" => t < e

\* a token text of exactly three non-empty dot-separated parts
ThreeParts(token) ==
  /\ Len(token) = 3
  /\ \A i \in 1..3 : token[i].kind # "empty"

\* C19: verify returns the failure signal for every token text that is not
\* exactly three non-empty dot-separated parts, a signed token with a fourth
\* part appended included.
C19_NotThreePartsFails ==
  (acall.op = "verify" /\ ~ThreeParts(acall.token)) => aout = Null

\* C20: verify(sign(C)) before the validity window has elapsed returns C
\* extended with exp = signing time + window; once the window has elapsed it
\* returns the failure signal (times in whole seconds).
C20_RoundTrip ==
  \A s \in signed :
    (acall.op = "verify" /\ acall.token = s.token) =>
      LET e == Seconds(s.at) + EXPIRES_IN
          elapsed == Seconds(acall.at) - Seconds(s.at)
      IN IF elapsed < EXPIRES_IN
           THEN aout = Decoded(Spread(s.claims, [exp |-> e]))
           ELSE aout = Null

\* the token texts whose signature does not match: a signed token with one
\* character of its payload or of its signature changed, or with a signature
\* of another length
Mismatched(token) ==
  { <<token[1], Flip(token[2]), token[3]>>,
    <<token[1], token[2], Flip(token[3])>>,
    <<token[1], token[2], Cut(token[3])>> }

\* C21: any signature mismatch makes verify return the failure signal, never
\* the claims and never a raised error: for a changed character in the
\* payload or the signature, and for a signature of another length.
C21_MismatchFailsClosed ==
  \A s \in signed :
    (acall.op = "verify" /\ acall.token \in Mismatched(s.token)) =>
      aout = Null

\* ------------------------------------------------------------------------
\* Claims about the response (SpecRouter)
\* ------------------------------------------------------------------------
\* C22: whatever response attempts are made while a request is handled, the
\* response is written at most once: the first attempt writes the status and
\* every later attempt changes nothing.
C22_WrittenAtMostOnce ==
  /\ res.writes <= 1
  /\ res.tried # <<>> => (res.sent /\ res.writes = 1
                          /\ res.status = res.tried[1])

\* a request the guard answered 401 and whose handler or whose global error
\* reply then tried to answer again
C22_Witness ==
  /\ probe.op = "serve"
  /\ Len(res.tried) >= 2
  /\ res.tried[1] # res.tried[2]

\* the status code of a failure's class: that of an AppError, 500 otherwise
ClassStatus(err) ==
  IF err.class = "AppError" THEN err.status ELSE INTERNAL_SERVER_ERROR

\* C23: every failure raised while a request is handled is answered with an
\* error response whose status code is that of the failure's class (400,
\* 401, 404, 405, or 500 for anything unanticipated); no failure leaves the
\* request unanswered.
C23_FailureClassStatus ==
  (probe.op = "serve" /\ out.kind = "throw") =>
    /\ res.sent
    /\ res.status = ClassStatus(out.err)

\* ------------------------------------------------------------------------
\* Claims about the request context (SpecRouter)
\* ------------------------------------------------------------------------
\* the handlers of the routes declared with a parameter
ParamHandlers == {"getUser", "updateUser", "deleteUser"}

\* C24: deciding whether a route applies has no side effect on the request:
\* a check that did not confirm a match leaves req.ids unset, a request that
\* no route handled has no req.ids, and when a handler of a parameterized
\* route is invoked req.ids holds the parameters its own pattern captures
\* from the request path.
C24_ChecksLeaveNoTrace ==
  /\ (probe.op = "match" /\ ~(out.kind = "ok" /\ out.value)) => ~req.hasIds
  /\ (probe.op = "serve" /\ out.kind = "unhandled") => ~req.hasIds
  /\ (probe.op = "serve" /\ out.invoked /\ out.handler \in ParamHandlers) =>
       /\ req.hasIds
       /\ req.ids = Track(Split(UserRoute), Split(Pathname(req.url)))

\* ------------------------------------------------------------------------
\* Claims about a token's life (SpecAuth)
\* ------------------------------------------------------------------------
\* C25: validity is monotone in time: once verify has returned the failure
\* signal for a signed token because it expired, verify returns the failure
\* signal for that token at every later time.
C25_ExpiredIsAbsorbing ==
  \A l \in lapsed :
    (acall.op = "verify" /\ acall.token = l.token) => aout = Null

\* a second verify of a signed token, later than the one that first found it
\* expired
C25_Witness ==
  \E l \in lapsed :
    /\ acall.op = "verify"
    /\ acall.token = l.token
    /\ acall.at > l.at

\* ------------------------------------------------------------------------
\* Claims about payment verification (SpecPay)
\* ------------------------------------------------------------------------
Completed(docs, i) == i \in 1..Len(docs) /\ docs[i].status \in GatewayOutcomes

\* C26: a payment's status starts 'pending' and moves only to 'success' or
\* 'failed'; once it is 'success' or 'failed', no later verifyPayment step,
\* of a call made after it or of one interleaved with it, changes it.
C26_VerifyIdempotent ==
  [][/\ \A i \in 1..Len(payments') :
          i > Len(payments) => payments'[i].status = "pending"
     /\ \A i \in 1..Len(payments) :
          /\ i <= Len(payments')
          /\ payments'[i].status \in PaymentStatuses
          /\ Completed(payments, i)
               => payments'[i].status = payments[i].status]_vars

\* ------------------------------------------------------------------------
\* Claims about the resource routers (SpecRouter)
\* ------------------------------------------------------------------------
\* a request went through a resource router
Routed ==
  \/ probe.op = "paymentRouter"
  \/ probe.op = "serve" /\ probe.parse = "ok"

RoutedTable == IF probe.op = "paymentRouter" THEN PaymentTable ELSE UserTable

\* the i-th declared route is the first of its method to match the path
FirstMatching(table, i, method, path) ==
  /\ table[i].method = method
  /\ Matches(table[i].check, path)
  /\ \A j \in 1..(i - 1) :
       ~(table[j].method = method /\ Matches(table[j].check, path))

\* C29: a request whose method and path structurally match a declared route,
\* and no earlier-declared route of that method, is dispatched to that
\* route's handler; so GET /payments/verify/<reference> reaches
\* verifyPayment.
C29_DeclaredRouteReached ==
  Routed =>
    \A i \in 1..Len(RoutedTable) :
      FirstMatching(RoutedTable, i, req.method, Pathname(req.url))
        => out.invoked /\ out.handler = RoutedTable[i].handler


====
